---- MODULE Spec2Model ----
(***************************************************************************)
(* Warp: the server routing core (server.ts) on top of the channel and the *)
(* duplex transport (channel.ts).                                          *)
(*                                                                         *)
(* The program is single-threaded JavaScript.  An action is the code that  *)
(* runs between two awaits.  External events (a WebSocket event, a public  *)
(* HTTP request, a caller abort, a body read completing) are dispatched    *)
(* only when no continuation is ready: the event loop runs every ready     *)
(* promise continuation before it takes the next event.  "Busy" states     *)
(* that rule.                                                              *)
(***************************************************************************)
EXTENDS Integers, Sequences, FiniteSets, TLC

\* ---------------------------------------------------------------- bounds
MaxConns == 2
MaxReqs == 2
MaxChunks == 2
MaxRegs == 2
MaxResp == 2
MaxSrv == 3
MaxCap == 2
MaxSends == 4
MaxCloses == 2
MaxRecvs == 2
MaxChunkLen == 4
MaxPush == 4
MaxPops == 3
MaxReply == 2
MaxSrcs == 4

Conns == 1..MaxConns
Reqs == 1..MaxReqs

\* ------------------------------------------------------------ constants
Hosts == {"x.test", "y.test"}
NoHost == ""
apiKeys == {"key1"}
Keys == {"key1", "bad"}
NoConn == 0

\* The same reply with another status, to compare against.
NoRegistration404 ==
    [status |-> 404,
     body |-> "No registration for domain and/or remote service not available"]
NoRegistration ==
    [status |-> 503,
     body |-> "No registration for domain and/or remote service not available"]
ErrorSending ==
    [status |-> 503, body |-> "Error sending request to remote client"]
Streaming == [status |-> 200, body |-> "stream"]
Pending == [status |-> 0, body |-> ""]

VARIABLES
    socket,           \* c -> "none" | "connecting" | "open" | "closing" | "closed"
    isClosing,        \* c -> makeWebSocket's flag
    inClosed,         \* c -> recvChan (ch.in) has been closed
    outClosed,        \* c -> sendChan (ch.out) has been closed
    connAborted,      \* c -> the upgrade request's signal has fired
    inQ,              \* c -> queue of recvChan: client messages
    outQ,             \* c -> queue of sendChan: [msg, resolve]
    inPc,             \* c -> the inbound loop of server.ts:131-144
    drainPc,          \* c -> the outbound loop of channel.ts:161-170
    serverStates,     \* the ids that have a connection state
    hosts,            \* c -> the list of hosts the connection has linked
    hostToClientId,   \* the registry: a function from some hosts to ids
    ongoingRequests,  \* c -> the ids in the connection's table
    nextId,           \* the next public request
    reqHost,          \* r -> the Host header of the request
    reqConn,          \* r -> the connection the request was forwarded on
    hasBody,          \* r -> req.body is present
    aborted,          \* r -> req.signal: "no" | "pre" | "open" | "closed"
    linked,           \* r -> link(ch.out.signal, req.signal): "none" | "live" | "aborted"
    reply,            \* r -> what the HTTP layer got (Pending: nothing yet)
    pump,             \* r -> the handler and its pump, server.ts:179-223
    procPc,           \* r -> processStream of makeChanStream
    nRead,            \* r -> chunks the body reader has yielded
    dataQ,            \* r -> queue of the channel makeChanStream returns
    dataClosed,       \* r -> that channel has been closed
    respQ,            \* r -> chunks waiting in responseBodyChan
    respClosed,       \* r -> responseBodyChan has been closed
    readerPc,         \* r -> the loop of makeReadableStream
    wire,             \* r -> the messages of r handed to socket.send, in order
    lastReg,          \* h -> the connection whose register for h was accepted last
    nMsgs,            \* client messages delivered so far
    \* ---- connectMainThread (the client of one connection)
    cSocket,          \* the client's WebSocket: "connecting" | "open" | "closing" | "closed"
    cIsClosing,       \* makeWebSocket's flag on the client
    cChanClosed,      \* sendChan and recvChan of the client have been closed
    cFactory,         \* the promise makeWebSocket returned: "pending" | "resolved" | "rejected"
    connectP,         \* the promise connect() returned: "pending" | "resolved" | "rejected"
    cPc,              \* connectMainThread: "socket" | "send" | "recv" | "handle" | "done" | "failed"
    cOutQ,            \* queue of the client's sendChan
    cDrainPc,         \* the client's outbound loop: "none" | "recv" | "done"
    cSent,            \* the messages handed to the client's socket.send
    cInQ,             \* queue of the client's recvChan: server messages
    cMsg,             \* the message handleServerMessage is working on
    live,             \* state.live
    registered,       \* the registered promise has been resolved
    closed,           \* the closed promise: "pending" | "undefined" | "error"
    nHandled,         \* registered messages handleServerMessage has handled
    nSrv,             \* server messages delivered to the client so far
    cErrored,         \* the client socket's error event: "no" | "connecting" | "open" (its state then)
    \* ---- one channel of makeChan(capacity), one consumer at a time
    capacity,         \* the argument of makeChan
    currentCapacity,  \* makeChan's counter
    queue,            \* the channel's queue: [id, buffered] per value
    chanAborted,      \* ctrl.signal.aborted
    abortPromise,     \* the closed future has been resolved
    sendRes,          \* i -> the promise of the i-th send: "none" | "pending" | "ok" | "rejected"
    nSends,           \* sends called so far
    recvPc,           \* the recv generator: "none" | "pop" | "yield" | "done" | "error"
    recvMode,         \* its linked signal: "own" (ctrl.signal) | "linked" (link(ctrl.signal, signal))
    recvLinked,       \* the controller link made for this recv has aborted
    hearsClose,       \* link's listener on ctrl.signal was added before it fired
    cancel,           \* the signal passed to recv: "none" | "live" | "fired"
    cancelAt,         \* where the generator was when cancel fired
    taken,            \* ids of the values the consumer got, in order
    nCloses,          \* close calls so far
    nRecvs,           \* recv sequences started so far
    \* ---- one message through a codec
    cdCodec,          \* "json" | "binary"
    cdTrailing,       \* the binary decoder sets chunk "always" or only when bytes remain ("nonempty")
    cdMsg,            \* the message: [header, hasChunk, chunk]
    cdWire,           \* serialize(cdMsg)
    cdOut,            \* deserialize(cdWire)
    cdPc,             \* "in" | "wire" | "out"
    \* ---- one Queue, one consumer at a time
    qItems,           \* the items waiting, oldest first
    qNext,            \* the value the next push enqueues
    qOut,             \* the values pop returned, in order
    qPop,             \* the pop call: "idle" | "waiting" | "woken" | "got" | "cancelled"
    qCancel,          \* the signal given to pop: "none" | "live" | "fired"
    qPops,            \* pop calls so far
    \* ---- the client's requests (state.requests)
    requests,         \* ids with an entry in state.requests
    reqState,         \* id -> "none" | "Received" | "Body-in" | "Body-sent" | "Replying" | "Done" | "Failed" | "Aborted"
    reqHasBody,       \* id -> hasBody of its request-start
    localCall,        \* id -> the local HTTP call: "none" | "pending" | "responding" | "done" | "failed" | "cancelled"
    sentResp,         \* id -> the types of the response-* messages sent for it, in order
    abortedAt,        \* id -> how many had been sent when request-aborted was handled (-1: never)
    \* ---- one call of link(...signals)
    sigAborted,       \* source -> signal.aborted
    signals,          \* the sources given to link ({} before the call)
    linkMade,         \* link has been called
    ctrlAborted,      \* ctrl.signal.aborted of the derived signal
    ctrlReason,       \* the source whose event aborted it (0: none)
    ctrlFires         \* ctrl.abort calls made by the listeners

connVars == <<socket, isClosing, inClosed, outClosed, connAborted>>
regVars == <<serverStates, hosts, hostToClientId, lastReg>>
reqIn == <<nextId, reqHost, reqConn, hasBody>>
sigVars == <<aborted, linked>>
bodyVars == <<procPc, nRead, dataQ, dataClosed>>
respVars == <<respQ, respClosed, readerPc>>

clientVars == <<cSocket, cIsClosing, cChanClosed, cFactory, connectP, cPc, cOutQ,
                cDrainPc, cSent, cInQ, cMsg, live, registered, closed, nHandled,
                nSrv, cErrored>>

chanVars == <<capacity, currentCapacity, queue, chanAborted, abortPromise,
              sendRes, nSends, recvPc, recvMode, recvLinked, hearsClose, cancel,
              cancelAt, taken, nCloses, nRecvs>>

\* What the actions of the server leave alone.
codecVars == <<cdCodec, cdTrailing, cdMsg, cdWire, cdOut, cdPc>>

queueVars == <<qItems, qNext, qOut, qPop, qCancel, qPops>>

creqVars == <<requests, reqState, reqHasBody, localCall, sentResp, abortedAt>>

linkVars == <<sigAborted, signals, linkMade, ctrlAborted, ctrlReason, ctrlFires>>

restVars == <<queueVars, creqVars, linkVars>>

otherVars == <<clientVars, chanVars, codecVars, restVars>>

serverVars == <<socket, isClosing, inClosed, outClosed, connAborted, inQ, outQ, inPc,
          drainPc, serverStates, hosts, hostToClientId, ongoingRequests, nextId,
          reqHost, reqConn, hasBody, aborted, linked, reply, pump, procPc, nRead,
          dataQ, dataClosed, respQ, respClosed, readerPc, wire, lastReg, nMsgs>>

vars == <<serverVars, otherVars>>

\* What the actions of the client, and of the channel, leave alone.
notClient == <<serverVars, chanVars, codecVars, restVars>>
notChan == <<serverVars, clientVars, codecVars, restVars>>
notCodec == <<serverVars, clientVars, chanVars, restVars>>
notQueue == <<serverVars, clientVars, chanVars, codecVars, creqVars, linkVars>>
notCreq == <<serverVars, clientVars, chanVars, codecVars, queueVars, linkVars>>
notLink == <<serverVars, clientVars, chanVars, codecVars, queueVars, creqVars>>

\* ------------------------------------------------------------- messages
ServerMsg(t, r, k) == [type |-> t, id |-> r, chunk |-> k]
ClientMsg(t, r, key, h) == [type |-> t, id |-> r, apiKey |-> key, domain |-> h]
Item(m, who) == [msg |-> m, resolve |-> who]

RegisterMsgs ==
    {ClientMsg("register", 0, key, h) : key \in Keys, h \in Hosts}
    \cup {ClientMsg("unknown", 0, "", "")}

ResponseMsgs ==
    {ClientMsg(t, r, "", "") :
        t \in {"response-start", "response-data", "response-end",
               "response-error"},
        r \in 1..(nextId - 1)}

ServerInit ==
    /\ socket = [c \in Conns |-> "none"]
    /\ isClosing = [c \in Conns |-> FALSE]
    /\ inClosed = [c \in Conns |-> FALSE]
    /\ outClosed = [c \in Conns |-> FALSE]
    /\ connAborted = [c \in Conns |-> FALSE]
    /\ inQ = [c \in Conns |-> <<>>]
    /\ outQ = [c \in Conns |-> <<>>]
    /\ inPc = [c \in Conns |-> "none"]
    /\ drainPc = [c \in Conns |-> "none"]
    /\ serverStates = {}
    /\ hosts = [c \in Conns |-> <<>>]
    /\ hostToClientId = [h \in {} |-> NoConn]
    /\ ongoingRequests = [c \in Conns |-> {}]
    /\ nextId = 1
    /\ reqHost = [r \in Reqs |-> NoHost]
    /\ reqConn = [r \in Reqs |-> NoConn]
    /\ hasBody = [r \in Reqs |-> FALSE]
    /\ aborted = [r \in Reqs |-> "no"]
    /\ linked = [r \in Reqs |-> "none"]
    /\ reply = [r \in Reqs |-> Pending]
    /\ pump = [r \in Reqs |-> "none"]
    /\ procPc = [r \in Reqs |-> "none"]
    /\ nRead = [r \in Reqs |-> 0]
    /\ dataQ = [r \in Reqs |-> <<>>]
    /\ dataClosed = [r \in Reqs |-> FALSE]
    /\ respQ = [r \in Reqs |-> 0]
    /\ respClosed = [r \in Reqs |-> FALSE]
    /\ readerPc = [r \in Reqs |-> "none"]
    /\ wire = [r \in Reqs |-> <<>>]
    /\ lastReg = [h \in Hosts |-> NoConn]
    /\ nMsgs = 0

\* connectMainThread up to its first await: the promises and the socket are
\* created, makeWebSocket has installed its handlers.
ClientInit ==
    /\ cSocket = "connecting"
    /\ cIsClosing = FALSE
    /\ cChanClosed = FALSE
    /\ cFactory = "pending"
    /\ connectP = "pending"
    /\ cPc = "socket"
    /\ cOutQ = <<>>
    /\ cDrainPc = "none"
    /\ cSent = <<>>
    /\ cInQ = <<>>
    /\ cMsg = "none"
    /\ live = FALSE
    /\ registered = FALSE
    /\ closed = "pending"
    /\ nHandled = 0
    /\ nSrv = 0
    /\ cErrored = "no"

\* makeChan(k): nothing sent, no recv started.
ChanInit(k) ==
    /\ capacity = k
    /\ currentCapacity = k
    /\ queue = <<>>
    /\ chanAborted = FALSE
    /\ abortPromise = FALSE
    /\ sendRes = [i \in 1..MaxSends |-> "none"]
    /\ nSends = 0
    /\ recvPc = "none"
    /\ recvMode = "own"
    /\ recvLinked = FALSE
    /\ hearsClose = FALSE
    /\ cancel = "none"
    /\ cancelAt = "none"
    /\ taken = <<>>
    /\ nCloses = 0
    /\ nRecvs = 0

NoChunk(h) == [header |-> h, hasChunk |-> FALSE, chunk |-> <<>>]

\* A message m waiting to be serialised by codec c.
CodecInit(c, t, m) ==
    /\ cdCodec = c
    /\ cdTrailing = t
    /\ cdMsg = m
    /\ cdWire = <<>>
    /\ cdOut = m
    /\ cdPc = "in"

CodecIdle == CodecInit("json", "always", NoChunk(<<123, 125>>))

\* new Queue(): empty, no pop called.
QueueInit ==
    /\ qItems = <<>>
    /\ qNext = 1
    /\ qOut = <<>>
    /\ qPop = "idle"
    /\ qCancel = "none"
    /\ qPops = 0

\* The client's state as connectMainThread builds it: requests: {}.
ClientReqInit ==
    /\ requests = {}
    /\ reqState = [r \in Reqs |-> "none"]
    /\ reqHasBody = [r \in Reqs |-> FALSE]
    /\ localCall = [r \in Reqs |-> "none"]
    /\ sentResp = [r \in Reqs |-> <<>>]
    /\ abortedAt = [r \in Reqs |-> -1]

Srcs == 1..MaxSrcs

\* Signals that have not fired, and no link made of them yet.
LinkInit ==
    /\ sigAborted = [x \in Srcs |-> FALSE]
    /\ signals = {}
    /\ linkMade = FALSE
    /\ ctrlAborted = FALSE
    /\ ctrlReason = 0
    /\ ctrlFires = 0

RestIdle == QueueInit /\ ClientReqInit /\ LinkInit

Init ==
    /\ ServerInit
    /\ ClientInit
    /\ ChanInit(0)
    /\ CodecIdle
    /\ RestIdle

\* ------------------------------------------------------ signals, channels
\* The signal recv(signal) derives with link(ctrl.signal, signal): the link
\* is made when the loop starts, before either source can fire.
InLinkedAborted(c) == inClosed[c] \/ connAborted[c]
RecvLinkedAborted(r) == dataClosed[r] \/ linked[r] = "aborted"

\* responseObject.resolve(v): a settled promise keeps its value.
Resolve(r, v) == IF reply[r] = Pending THEN v ELSE reply[r]

\* queue.push({value, resolve}) of send: the item is queued whether or not
\* the promise was rejected first (the rejection does not return).
Push(q, m, who) == Append(q, Item(m, who))

\* --------------------------------------------------------------- registry
\* A registry in which an existing claim is kept (first writer wins).
ControllerLinkFirst(c, h) ==
    IF h \in DOMAIN hostToClientId
    THEN hostToClientId
    ELSE [x \in DOMAIN hostToClientId \cup {h} |->
             IF x = h THEN c ELSE hostToClientId[x]]

\* controller.link: hostToClientId[host] = clientId
ControllerLink(c, h) ==
    [x \in DOMAIN hostToClientId \cup {h} |->
        IF x = h THEN c ELSE hostToClientId[x]]

InList(h, hs) == \E i \in 1..Len(hs) : hs[i] = h

\* A teardown that leaves the registry as it is.
PruneNone(reg, hs, c) == reg

\* A teardown that deletes every host of the list, whoever owns it now.
PruneAll(reg, hs, c) ==
    [x \in {h \in DOMAIN reg : ~InList(h, hs)} |-> reg[x]]

\* The finally block: for (const host of hosts) if it still maps to clientId,
\* delete it.  reg and hs are the registry and the list at that moment.
Prune(reg, hs, c) ==
    [x \in {h \in DOMAIN reg :
               ~(\E i \in 1..Len(hs) : hs[i] = h /\ reg[h] = c)} |->
        reg[x]]

\* host && host in hostToClientId, then serverStates[hostToClientId[host]]:
\* the connection a public request goes to, NoConn when there is none.
Route(h) ==
    IF /\ h # NoHost
       /\ h \in DOMAIN hostToClientId
       /\ hostToClientId[h] \in serverStates
    THEN hostToClientId[h]
    ELSE NoConn

\* ------------------------------------------- which continuations are ready
InRecvReady(c) == inPc[c] = "recv" /\ inQ[c] # <<>> /\ ~InLinkedAborted(c)
InResumeReady(c) == inPc[c] = "resume"
InWakeReady(c) == inPc[c] = "recv" /\ InLinkedAborted(c)
DrainReady(c) == drainPc[c] = "recv" /\ ~outClosed[c] /\ outQ[c] # <<>>
DrainExitReady(c) == drainPc[c] = "recv" /\ outClosed[c]
HandlerReady(r) == pump[r] = "started"
PumpRecvReady(r) ==
    pump[r] = "recv" /\ dataQ[r] # <<>> /\ ~RecvLinkedAborted(r)
PumpSentReady(r) == pump[r] = "sent"
PumpWakeReady(r) ==
    pump[r] = "recv" /\ dataQ[r] = <<>> /\ RecvLinkedAborted(r)
ReaderReady(r) == readerPc[r] = "recv" /\ ~respClosed[r] /\ respQ[r] > 0
ReaderExitReady(r) == readerPc[r] = "recv" /\ respClosed[r]

Busy ==
    \/ \E c \in Conns :
          \/ InRecvReady(c) \/ InResumeReady(c) \/ InWakeReady(c)
          \/ DrainReady(c) \/ DrainExitReady(c)
    \/ \E r \in Reqs :
          \/ HandlerReady(r) \/ PumpRecvReady(r) \/ PumpSentReady(r)
          \/ PumpWakeReady(r) \/ ReaderReady(r) \/ ReaderExitReady(r)

\* ------------------------------------------------------------ connections
\* GET connectPath: upgradeWebSocket and makeWebSocket; the socket is not
\* open yet.  Ids are minted in order.
Connect(c) ==
    /\ socket[c] = "none"
    /\ \A d \in Conns : d < c => socket[d] # "none"
    /\ ~Busy
    /\ socket' = [socket EXCEPT ![c] = "connecting"]
    /\ UNCHANGED otherVars
    /\ UNCHANGED <<isClosing, inClosed, outClosed, connAborted, inQ, outQ, inPc,
                   drainPc, regVars, ongoingRequests, reqIn, sigVars, reply,
                   pump, bodyVars, respVars, wire, nMsgs>>

\* socket.onopen: the factory promise resolves, the outbound loop starts, and
\* the handler's task creates the connection state and starts the inbound loop.
SocketOpen(c) ==
    /\ socket[c] = "connecting"
    /\ ~Busy
    /\ socket' = [socket EXCEPT ![c] = "open"]
    /\ drainPc' = [drainPc EXCEPT ![c] = "recv"]
    /\ inPc' = [inPc EXCEPT ![c] = "recv"]
    /\ serverStates' = serverStates \cup {c}
    /\ UNCHANGED otherVars
    /\ UNCHANGED <<isClosing, inClosed, outClosed, connAborted, inQ, outQ, hosts,
                   hostToClientId, lastReg, ongoingRequests, reqIn, sigVars,
                   reply, pump, bodyVars, respVars, wire, nMsgs>>

\* The abort listeners that link(ch.out.signal, req.signal) put on
\* ch.out.signal: every live derived signal of the connection fires.
LinkedAfterClose(c) ==
    [r \in Reqs |->
        IF reqConn[r] = c /\ linked[r] = "live" THEN "aborted" ELSE linked[r]]

\* socket.onclose
SocketClose(c) ==
    /\ socket[c] \in {"open", "closing"}
    /\ ~Busy
    /\ socket' = [socket EXCEPT ![c] = "closed"]
    /\ IF ~isClosing[c]
       THEN /\ isClosing' = [isClosing EXCEPT ![c] = TRUE]
            /\ outClosed' = [outClosed EXCEPT ![c] = TRUE]
            /\ inClosed' = [inClosed EXCEPT ![c] = TRUE]
            /\ linked' = LinkedAfterClose(c)
       ELSE UNCHANGED <<isClosing, outClosed, inClosed, linked>>
    /\ UNCHANGED otherVars
    /\ UNCHANGED <<connAborted, inQ, outQ, inPc, drainPc, regVars,
                   ongoingRequests, reqIn, aborted, reply, pump, bodyVars,
                   respVars, wire, nMsgs>>

\* socket.onerror
SocketError(c) ==
    /\ socket[c] \in {"connecting", "open"}
    /\ ~Busy
    /\ IF ~isClosing[c]
       THEN /\ isClosing' = [isClosing EXCEPT ![c] = TRUE]
            /\ socket' = [socket EXCEPT ![c] = "closing"]
       ELSE UNCHANGED <<isClosing, socket>>
    /\ UNCHANGED otherVars
    /\ UNCHANGED <<inClosed, outClosed, connAborted, inQ, outQ, inPc, drainPc,
                   regVars, ongoingRequests, reqIn, sigVars, reply, pump,
                   bodyVars, respVars, wire, nMsgs>>

\* The signal of the upgrade request fires: ch.in.recv(req.signal).
ConnAbort(c) ==
    /\ socket[c] = "open"
    /\ ~connAborted[c]
    /\ ~Busy
    /\ connAborted' = [connAborted EXCEPT ![c] = TRUE]
    /\ UNCHANGED otherVars
    /\ UNCHANGED <<socket, isClosing, inClosed, outClosed, inQ, outQ, inPc,
                   drainPc, regVars, ongoingRequests, reqIn, sigVars, reply,
                   pump, bodyVars, respVars, wire, nMsgs>>

\* socket.onmessage
SocketMessage(c, m) ==
    /\ socket[c] = "open"
    /\ ~inClosed[c]
    /\ ~Busy
    /\ inQ' = [inQ EXCEPT ![c] = Append(@, m)]
    /\ nMsgs' = nMsgs + 1
    /\ UNCHANGED otherVars
    /\ UNCHANGED <<connVars, outQ, inPc, drainPc, regVars, ongoingRequests,
                   reqIn, sigVars, reply, pump, bodyVars, respVars, wire>>

\* ------------------------------------------------------- the outbound loop
AfterSend(pc) ==
    CASE pc = "start" -> "started"
      [] pc = "send" -> "sent"
      [] pc = "sendEnd" -> "done"
      [] OTHER -> pc

\* for await (const message of sendChan.recv()): pop, resolve the sender,
\* socket.send.
DrainStep(c) ==
    /\ DrainReady(c)
    /\ LET it == Head(outQ[c])
           m == it.msg
           w == it.resolve
       IN /\ outQ' = [outQ EXCEPT ![c] = Tail(@)]
          /\ wire' = IF m.id \in Reqs
                     THEN [wire EXCEPT ![m.id] =
                              Append(@, [type |-> m.type, chunk |-> m.chunk])]
                     ELSE wire
          /\ pump' = IF w.kind = "req"
                     THEN [pump EXCEPT ![w.of] = AfterSend(@)]
                     ELSE pump
          /\ inPc' = IF w.kind = "in"
                     THEN [inPc EXCEPT ![w.of] = "resume"]
                     ELSE inPc
    /\ UNCHANGED otherVars
    /\ UNCHANGED <<connVars, inQ, drainPc, regVars, ongoingRequests, reqIn,
                   sigVars, reply, bodyVars, respVars, nMsgs>>

\* The loop ends when sendChan is closed; then socket.close().
DrainExit(c) ==
    /\ DrainExitReady(c)
    /\ drainPc' = [drainPc EXCEPT ![c] = "done"]
    /\ socket' = [socket EXCEPT ![c] = IF @ = "open" THEN "closing" ELSE @]
    /\ UNCHANGED otherVars
    /\ UNCHANGED <<isClosing, inClosed, outClosed, connAborted, inQ, outQ, inPc,
                   regVars, ongoingRequests, reqIn, sigVars, reply, pump,
                   bodyVars, respVars, wire, nMsgs>>

\* -------------------------------------------------------- the inbound loop
Who(k, x) == [kind |-> k, of |-> x]

\* finally: delete serverStates[clientId]; prune the hosts still its own.
Teardown(c, reg, hs) ==
    /\ serverStates' = serverStates \ {c}
    /\ hostToClientId' = Prune(reg, hs, c)

\* A key check that accepts every key.
ApiKeyAny(key) == TRUE

\* state.apiKeys.includes(message.apiKey)
ApiKeyOk(key) == key \in apiKeys

\* register with an accepted key: controller.link(domain), then
\* await ch.out.send(registered).  A rejected send leaves the loop.
InRegister(c) ==
    /\ InRecvReady(c)
    /\ LET m == Head(inQ[c])
           reg == ControllerLink(c, m.domain)
           hs == Append(hosts[c], m.domain)
       IN /\ m.type = "register"
          /\ ApiKeyOk(m.apiKey)
          /\ inQ' = [inQ EXCEPT ![c] = Tail(@)]
          /\ hosts' = [hosts EXCEPT ![c] = hs]
          /\ lastReg' = [lastReg EXCEPT ![m.domain] = c]
          /\ outQ' = [outQ EXCEPT ![c] =
                         Push(@, ServerMsg("registered", 0, 0), Who("in", c))]
          /\ IF outClosed[c]
             THEN /\ Teardown(c, reg, hs)
                  /\ inPc' = [inPc EXCEPT ![c] = "done"]
             ELSE /\ hostToClientId' = reg
                  /\ inPc' = [inPc EXCEPT ![c] = "awaitOut"]
                  /\ UNCHANGED serverStates
    /\ UNCHANGED otherVars
    /\ UNCHANGED <<connVars, drainPc, ongoingRequests, reqIn, sigVars, reply,
                   pump, bodyVars, respVars, wire, nMsgs>>

\* register with a key that is not accepted: state.socket.close().
InRegisterRejected(c) ==
    /\ InRecvReady(c)
    /\ LET m == Head(inQ[c])
       IN /\ m.type = "register"
          /\ ~ApiKeyOk(m.apiKey)
    /\ inQ' = [inQ EXCEPT ![c] = Tail(@)]
    /\ socket' = [socket EXCEPT ![c] = IF @ = "open" THEN "closing" ELSE @]
    /\ UNCHANGED otherVars
    /\ UNCHANGED <<isClosing, inClosed, outClosed, connAborted, outQ, inPc,
                   drainPc, regVars, ongoingRequests, reqIn, sigVars, reply,
                   pump, bodyVars, respVars, wire, nMsgs>>

HasEntry(c, m) == m.id \in ongoingRequests[c]

\* response-start: resolve the response promise with a body that
\* makeReadableStream(responseBodyChan) feeds.
InResponseStart(c) ==
    /\ InRecvReady(c)
    /\ LET m == Head(inQ[c])
       IN /\ m.type = "response-start"
          /\ HasEntry(c, m)
          /\ reply' = [reply EXCEPT ![m.id] = Resolve(m.id, Streaming)]
          /\ readerPc' = [readerPc EXCEPT ![m.id] =
                             IF @ = "none" THEN "recv" ELSE @]
    /\ inQ' = [inQ EXCEPT ![c] = Tail(@)]
    /\ UNCHANGED otherVars
    /\ UNCHANGED <<connVars, outQ, inPc, drainPc, regVars, ongoingRequests,
                   reqIn, sigVars, pump, bodyVars, respQ, respClosed, wire,
                   nMsgs>>

\* response-data: await responseBodyChan.send(chunk).
InResponseData(c) ==
    /\ InRecvReady(c)
    /\ LET m == Head(inQ[c])
       IN /\ m.type = "response-data"
          /\ HasEntry(c, m)
          /\ respQ' = [respQ EXCEPT ![m.id] = @ + 1]
    /\ inQ' = [inQ EXCEPT ![c] = Tail(@)]
    /\ inPc' = [inPc EXCEPT ![c] = "awaitBody"]
    /\ UNCHANGED otherVars
    /\ UNCHANGED <<connVars, outQ, drainPc, regVars, ongoingRequests, reqIn,
                   sigVars, reply, pump, bodyVars, respClosed, readerPc, wire,
                   nMsgs>>

\* response-end: close responseBodyChan and drop the entry.
InResponseEnd(c) ==
    /\ InRecvReady(c)
    /\ LET m == Head(inQ[c])
       IN /\ m.type = "response-end"
          /\ HasEntry(c, m)
          /\ respClosed' = [respClosed EXCEPT ![m.id] = TRUE]
          /\ ongoingRequests' = [ongoingRequests EXCEPT ![c] = @ \ {m.id}]
    /\ inQ' = [inQ EXCEPT ![c] = Tail(@)]
    /\ UNCHANGED otherVars
    /\ UNCHANGED <<connVars, outQ, inPc, drainPc, regVars, reqIn, sigVars,
                   reply, pump, bodyVars, respQ, readerPc, wire, nMsgs>>

\* response-error: the local call failed; the caller gets the 503.
InResponseError(c) ==
    /\ InRecvReady(c)
    /\ LET m == Head(inQ[c])
       IN /\ m.type = "response-error"
          /\ HasEntry(c, m)
          /\ reply' = [reply EXCEPT ![m.id] = Resolve(m.id, ErrorSending)]
          /\ respClosed' = [respClosed EXCEPT ![m.id] = TRUE]
          /\ ongoingRequests' = [ongoingRequests EXCEPT ![c] = @ \ {m.id}]
    /\ inQ' = [inQ EXCEPT ![c] = Tail(@)]
    /\ UNCHANGED otherVars
    /\ UNCHANGED <<connVars, outQ, inPc, drainPc, regVars, reqIn, sigVars,
                   pump, bodyVars, respQ, readerPc, wire, nMsgs>>

\* A handler that throws on such a message: the loop's catch swallows the
\* error and the finally block tears the connection down.
InDroppedThrows(c) ==
    /\ InRecvReady(c)
    /\ LET m == Head(inQ[c])
       IN \/ m.type = "unknown"
          \/ /\ m.type \in {"response-start", "response-data", "response-end",
                            "response-error"}
             /\ ~HasEntry(c, m)
    /\ inQ' = [inQ EXCEPT ![c] = Tail(@)]
    /\ inPc' = [inPc EXCEPT ![c] = "done"]
    /\ Teardown(c, hostToClientId, hosts[c])
    /\ UNCHANGED otherVars
    /\ UNCHANGED <<connVars, outQ, drainPc, hosts, lastReg, ongoingRequests,
                   reqIn, sigVars, reply, pump, bodyVars, respVars, wire, nMsgs>>

\* Unknown type, or a response-* whose id has no entry: dropped.
InDropped(c) ==
    /\ InRecvReady(c)
    /\ LET m == Head(inQ[c])
       IN \/ m.type = "unknown"
          \/ /\ m.type \in {"response-start", "response-data", "response-end",
                            "response-error"}
             /\ ~HasEntry(c, m)
    /\ inQ' = [inQ EXCEPT ![c] = Tail(@)]
    /\ UNCHANGED otherVars
    /\ UNCHANGED <<connVars, outQ, inPc, drainPc, regVars, ongoingRequests,
                   reqIn, sigVars, reply, pump, bodyVars, respVars, wire, nMsgs>>

\* The handler's await has settled: the next turn of the loop, which ends
\* when the derived signal has fired.
InResume(c) ==
    /\ InResumeReady(c)
    /\ IF InLinkedAborted(c)
       THEN /\ Teardown(c, hostToClientId, hosts[c])
            /\ inPc' = [inPc EXCEPT ![c] = "done"]
       ELSE /\ inPc' = [inPc EXCEPT ![c] = "recv"]
            /\ UNCHANGED <<serverStates, hostToClientId>>
    /\ UNCHANGED otherVars
    /\ UNCHANGED <<connVars, inQ, outQ, drainPc, hosts, lastReg,
                   ongoingRequests, reqIn, sigVars, reply, pump, bodyVars,
                   respVars, wire, nMsgs>>

\* The pending pop is cancelled: the loop ends and the finally block runs.
InWake(c) ==
    /\ InWakeReady(c)
    /\ Teardown(c, hostToClientId, hosts[c])
    /\ inPc' = [inPc EXCEPT ![c] = "done"]
    /\ UNCHANGED otherVars
    /\ UNCHANGED <<connVars, inQ, outQ, drainPc, hosts, lastReg,
                   ongoingRequests, reqIn, sigVars, reply, pump, bodyVars,
                   respVars, wire, nMsgs>>

\* ---------------------------------------------------- the response's body
\* makeReadableStream: for await (const content of ch.recv(signal)) enqueue.
ReaderStep(r) ==
    /\ ReaderReady(r)
    /\ respQ' = [respQ EXCEPT ![r] = @ - 1]
    /\ inPc' = [inPc EXCEPT ![reqConn[r]] = "resume"]
    /\ UNCHANGED otherVars
    /\ UNCHANGED <<connVars, inQ, outQ, drainPc, regVars, ongoingRequests,
                   reqIn, sigVars, reply, pump, bodyVars, respClosed, readerPc,
                   wire, nMsgs>>

\* responseBodyChan is closed: controller.close().
ReaderExit(r) ==
    /\ ReaderExitReady(r)
    /\ readerPc' = [readerPc EXCEPT ![r] = "closed"]
    /\ UNCHANGED otherVars
    /\ UNCHANGED <<connVars, inQ, outQ, inPc, drainPc, regVars,
                   ongoingRequests, reqIn, sigVars, reply, pump, bodyVars,
                   respQ, respClosed, wire, nMsgs>>

\* ------------------------------------------------------- public requests
\* Any path but connectPath.  h is the Host header (NoHost: absent), b
\* whether the request has a body, pre whether its signal has already fired.
PublicRequest(h, b, pre) ==
    /\ nextId <= MaxReqs
    /\ ~Busy
    /\ LET r == nextId
           c == Route(h)
       IN /\ nextId' = r + 1
          /\ reqHost' = [reqHost EXCEPT ![r] = h]
          /\ IF c = NoConn
             THEN /\ reply' = [reply EXCEPT ![r] = NoRegistration]
                  /\ UNCHANGED <<reqConn, hasBody, aborted, ongoingRequests,
                                 outQ, pump>>
             ELSE /\ reqConn' = [reqConn EXCEPT ![r] = c]
                  /\ hasBody' = [hasBody EXCEPT ![r] = b]
                  /\ aborted' = [aborted EXCEPT ![r] =
                                    IF pre THEN "pre" ELSE "no"]
                  /\ ongoingRequests' =
                         [ongoingRequests EXCEPT ![c] = @ \cup {r}]
                  /\ outQ' = [outQ EXCEPT ![c] =
                                 Push(@, ServerMsg("request-start", r, 0),
                                      Who("req", r))]
                  /\ IF outClosed[c]
                     THEN /\ reply' = [reply EXCEPT ![r] = ErrorSending]
                          /\ pump' = [pump EXCEPT ![r] = "rejected"]
                     ELSE /\ pump' = [pump EXCEPT ![r] = "start"]
                          /\ UNCHANGED reply
    /\ UNCHANGED otherVars
    /\ UNCHANGED <<connVars, inQ, inPc, drainPc, regVars, linked, bodyVars,
                   respVars, wire, nMsgs>>

\* A pump that does not await its send: request-end is queued in the same
\* turn as the message.
PumpSendThenEnd(r, m, pc) ==
    LET c == reqConn[r]
    IN /\ outQ' = [outQ EXCEPT ![c] =
                      Push(Push(@, m, Who("none", 0)),
                           ServerMsg("request-end", r, 0), Who("req", r))]
       /\ pump' = [pump EXCEPT ![r] = IF outClosed[c] THEN "failed" ELSE pc]
       /\ reply' = IF outClosed[c]
                   THEN [reply EXCEPT ![r] = Resolve(r, ErrorSending)]
                   ELSE reply

\* await ch.out.send(m) inside the pump's try: a rejection goes to the catch,
\* which resolves the response promise with the 503.
PumpSend(r, m, pc) ==
    LET c == reqConn[r]
    IN /\ outQ' = [outQ EXCEPT ![c] = Push(@, m, Who("req", r))]
       /\ pump' = [pump EXCEPT ![r] = IF outClosed[c] THEN "failed" ELSE pc]
       /\ reply' = IF outClosed[c]
                   THEN [reply EXCEPT ![r] = Resolve(r, ErrorSending)]
                   ELSE reply

\* A pump that ends without sending request-end.
PumpFinishNoEnd(r) ==
    IF linked[r] = "aborted"
    THEN /\ pump' = [pump EXCEPT ![r] = "stopped"]
         /\ UNCHANGED <<outQ, reply>>
    ELSE /\ pump' = [pump EXCEPT ![r] = "done"]
         /\ UNCHANGED <<outQ, reply>>

\* After the for await: if (linked.aborted) return; else send request-end.
PumpFinish(r) ==
    IF linked[r] = "aborted"
    THEN /\ pump' = [pump EXCEPT ![r] = "stopped"]
         /\ UNCHANGED <<outQ, reply>>
    ELSE PumpSend(r, ServerMsg("request-end", r, 0), "sendEnd")

\* A handler that sends request-end without waiting for the body pump.
HandlerSentEndFirst(r) ==
    /\ HandlerReady(r)
    /\ linked' = [linked EXCEPT ![r] = "live"]
    /\ IF hasBody[r]
       THEN /\ procPc' = [procPc EXCEPT ![r] = "read"]
            /\ pump' = [pump EXCEPT ![r] = "recv"]
            /\ outQ' = [outQ EXCEPT ![reqConn[r]] =
                           Push(@, ServerMsg("request-end", r, 0),
                                Who("none", 0))]
            /\ UNCHANGED reply
       ELSE /\ PumpSend(r, ServerMsg("request-end", r, 0), "sendEnd")
            /\ UNCHANGED procPc
    /\ UNCHANGED otherVars
    /\ UNCHANGED <<connVars, inQ, inPc, drainPc, regVars, ongoingRequests,
                   reqIn, aborted, nRead, dataQ, dataClosed, respVars, wire,
                   nMsgs>>

\* request-start has been taken: makeChanStream(req.body), link(...), the
\* abort listener, and the pump up to its first await.
HandlerSent(r) ==
    /\ HandlerReady(r)
    /\ linked' = [linked EXCEPT ![r] = "live"]
    /\ IF hasBody[r]
       THEN /\ procPc' = [procPc EXCEPT ![r] = "read"]
            /\ pump' = [pump EXCEPT ![r] = "recv"]
            /\ UNCHANGED <<outQ, reply>>
       ELSE /\ PumpSend(r, ServerMsg("request-end", r, 0), "sendEnd")
            /\ UNCHANGED procPc
    /\ UNCHANGED otherVars
    /\ UNCHANGED <<connVars, inQ, inPc, drainPc, regVars, ongoingRequests,
                   reqIn, aborted, nRead, dataQ, dataClosed, respVars, wire,
                   nMsgs>>

\* The pump takes a chunk (processStream's send settles and it reads on) and
\* sends it as request-data.
PumpRecv(r) ==
    /\ PumpRecvReady(r)
    /\ dataQ' = [dataQ EXCEPT ![r] = Tail(@)]
    /\ procPc' = [procPc EXCEPT ![r] = IF @ = "send" THEN "read" ELSE @]
    /\ PumpSend(r, ServerMsg("request-data", r, Head(dataQ[r])), "send")
    /\ UNCHANGED otherVars
    /\ UNCHANGED <<connVars, inQ, inPc, drainPc, regVars, ongoingRequests,
                   reqIn, sigVars, nRead, dataClosed, respVars, wire, nMsgs>>

\* request-data has been taken: the next turn of the for await.
PumpSent(r) ==
    /\ PumpSentReady(r)
    /\ IF RecvLinkedAborted(r)
       THEN PumpFinish(r)
       ELSE /\ pump' = [pump EXCEPT ![r] = "recv"]
            /\ UNCHANGED <<outQ, reply>>
    /\ UNCHANGED otherVars
    /\ UNCHANGED <<connVars, inQ, inPc, drainPc, regVars, ongoingRequests,
                   reqIn, sigVars, bodyVars, respVars, wire, nMsgs>>

\* The pending pop of dataChan.recv(linked) is cancelled: the channel was
\* closed (end of body) or linked fired.
PumpWake(r) ==
    /\ PumpWakeReady(r)
    /\ PumpFinish(r)
    /\ UNCHANGED otherVars
    /\ UNCHANGED <<connVars, inQ, inPc, drainPc, regVars, ongoingRequests,
                   reqIn, sigVars, bodyVars, respVars, wire, nMsgs>>

\* ------------------------------------------------ processStream's reader
\* reader.read() yields a chunk: await chan.send(value).
BodyChunk(r) ==
    /\ procPc[r] = "read"
    /\ nRead[r] < MaxChunks
    /\ ~Busy
    /\ nRead' = [nRead EXCEPT ![r] = @ + 1]
    /\ dataQ' = [dataQ EXCEPT ![r] = Append(@, nRead[r] + 1)]
    /\ procPc' = [procPc EXCEPT ![r] = "send"]
    /\ UNCHANGED otherVars
    /\ UNCHANGED <<connVars, inQ, outQ, inPc, drainPc, regVars,
                   ongoingRequests, reqIn, sigVars, reply, pump, dataClosed,
                   respVars, wire, nMsgs>>

\* reader.read() yields done: chan.close().
BodyEnd(r) ==
    /\ procPc[r] = "read"
    /\ ~Busy
    /\ dataClosed' = [dataClosed EXCEPT ![r] = TRUE]
    /\ procPc' = [procPc EXCEPT ![r] = "closed"]
    /\ UNCHANGED otherVars
    /\ UNCHANGED <<connVars, inQ, outQ, inPc, drainPc, regVars,
                   ongoingRequests, reqIn, sigVars, reply, pump, nRead, dataQ,
                   respVars, wire, nMsgs>>

\* reader.read() rejects: processStream's catch logs the error.
BodyError(r) ==
    /\ procPc[r] = "read"
    /\ ~Busy
    /\ procPc' = [procPc EXCEPT ![r] = "failed"]
    /\ UNCHANGED otherVars
    /\ UNCHANGED <<connVars, inQ, outQ, inPc, drainPc, regVars,
                   ongoingRequests, reqIn, sigVars, reply, pump, nRead, dataQ,
                   dataClosed, respVars, wire, nMsgs>>

\* A derived signal that is not linked to req.signal.
LinkedAfterAbortUnlinked(r) == linked

\* link's listener on req.signal: the linked controller aborts.
LinkedAfterAbort(r) == [linked EXCEPT ![r] = "aborted"]

\* req.signal fires: link's listener, then the handler's, which sends
\* request-aborted, without awaiting it, unless ch.out is closed.
CallerAbort(r) ==
    /\ aborted[r] = "no"
    /\ linked[r] # "none"
    /\ ~Busy
    /\ LET c == reqConn[r]
       IN /\ aborted' = [aborted EXCEPT ![r] =
                            IF outClosed[c] THEN "closed" ELSE "open"]
          /\ linked' = LinkedAfterAbort(r)
          /\ outQ' = IF outClosed[c]
                     THEN outQ
                     ELSE [outQ EXCEPT ![c] =
                              Push(@, ServerMsg("request-aborted", r, 0),
                                   Who("none", 0))]
    /\ UNCHANGED otherVars
    /\ UNCHANGED <<connVars, inQ, inPc, drainPc, regVars, ongoingRequests,
                   reqIn, reply, pump, bodyVars, respVars, wire, nMsgs>>

\* ------------------------------------------------------- specifications
\* Routing: connections come and go, clients register, bodiless requests
\* are routed.
Next ==
    \/ \E c \in Conns : Connect(c)
    \/ \E c \in Conns : SocketOpen(c)
    \/ \E c \in Conns : SocketClose(c)
    \/ \E c \in Conns : SocketError(c)
    \/ \E c \in Conns : ConnAbort(c)
    \/ \E c \in Conns : \E m \in RegisterMsgs :
          nMsgs < MaxRegs /\ SocketMessage(c, m)
    \/ \E c \in Conns : DrainStep(c)
    \/ \E c \in Conns : DrainExit(c)
    \/ \E c \in Conns : InRegister(c)
    \/ \E c \in Conns : InRegisterRejected(c)
    \/ \E c \in Conns : InDropped(c)
    \/ \E c \in Conns : InResume(c)
    \/ \E c \in Conns : InWake(c)
    \/ \E h \in Hosts \cup {NoHost} : PublicRequest(h, FALSE, FALSE)
    \/ \E r \in Reqs : HandlerSent(r)

Spec == Init /\ [][Next]_vars

\* Forwarding: one client has connected and registered x.test (a state Spec
\* reaches); requests for x.test are forwarded and answered.
InitPump ==
    /\ socket = [c \in Conns |-> IF c = 1 THEN "open" ELSE "none"]
    /\ isClosing = [c \in Conns |-> FALSE]
    /\ inClosed = [c \in Conns |-> FALSE]
    /\ outClosed = [c \in Conns |-> FALSE]
    /\ connAborted = [c \in Conns |-> FALSE]
    /\ inQ = [c \in Conns |-> <<>>]
    /\ outQ = [c \in Conns |-> <<>>]
    /\ inPc = [c \in Conns |-> IF c = 1 THEN "recv" ELSE "none"]
    /\ drainPc = [c \in Conns |-> IF c = 1 THEN "recv" ELSE "none"]
    /\ serverStates = {1}
    /\ hosts = [c \in Conns |-> IF c = 1 THEN <<"x.test">> ELSE <<>>]
    /\ hostToClientId = [h \in {"x.test"} |-> 1]
    /\ ongoingRequests = [c \in Conns |-> {}]
    /\ nextId = 1
    /\ reqHost = [r \in Reqs |-> NoHost]
    /\ reqConn = [r \in Reqs |-> NoConn]
    /\ hasBody = [r \in Reqs |-> FALSE]
    /\ aborted = [r \in Reqs |-> "no"]
    /\ linked = [r \in Reqs |-> "none"]
    /\ reply = [r \in Reqs |-> Pending]
    /\ pump = [r \in Reqs |-> "none"]
    /\ procPc = [r \in Reqs |-> "none"]
    /\ nRead = [r \in Reqs |-> 0]
    /\ dataQ = [r \in Reqs |-> <<>>]
    /\ dataClosed = [r \in Reqs |-> FALSE]
    /\ respQ = [r \in Reqs |-> 0]
    /\ respClosed = [r \in Reqs |-> FALSE]
    /\ readerPc = [r \in Reqs |-> "none"]
    /\ wire = [r \in Reqs |-> <<>>]
    /\ lastReg = [h \in Hosts |-> IF h = "x.test" THEN 1 ELSE NoConn]
    /\ nMsgs = 1
    /\ ClientInit
    /\ ChanInit(0)
    /\ CodecIdle
    /\ RestIdle

NextPump ==
    \/ SocketClose(1)
    \/ \E m \in ResponseMsgs \cup {ClientMsg("unknown", 0, "", "")} :
          nMsgs < MaxResp + 1 /\ SocketMessage(1, m)
    \/ DrainStep(1)
    \/ DrainExit(1)
    \/ InResponseStart(1)
    \/ InResponseData(1)
    \/ InResponseEnd(1)
    \/ InResponseError(1)
    \/ InDropped(1)
    \/ InResume(1)
    \/ InWake(1)
    \/ \E r \in Reqs : ReaderStep(r)
    \/ \E r \in Reqs : ReaderExit(r)
    \/ \E b, pre \in BOOLEAN : PublicRequest("x.test", b, pre)
    \/ \E r \in Reqs : HandlerSent(r)
    \/ \E r \in Reqs : PumpRecv(r)
    \/ \E r \in Reqs : PumpSent(r)
    \/ \E r \in Reqs : PumpWake(r)
    \/ \E r \in Reqs : BodyChunk(r)
    \/ \E r \in Reqs : BodyEnd(r)
    \/ \E r \in Reqs : BodyError(r)
    \/ \E r \in Reqs : CallerAbort(r)

SpecPump == InitPump /\ [][NextPump]_vars

\* ------------------------------------------------------------ the client
\* connectMainThread with the WebSocket makeWebSocket wraps.  The server's
\* messages are "registered", "other" (a message whose handling waits for the
\* local call) and "poison" (a message whose handling throws).
SrvMsgs == {"registered", "other", "poison"}

ClientDrainReady == cDrainPc = "recv" /\ ~cChanClosed /\ cOutQ # <<>>
ClientDrainExitReady == cDrainPc = "recv" /\ cChanClosed
ClientAfterFactoryReady == cPc = "socket" /\ cFactory # "pending"
ClientStartReady == cPc = "sent"
ClientTakeReady == cPc = "recv" /\ ~cChanClosed /\ cInQ # <<>>
ClientLoopExitReady == cPc = "recv" /\ cChanClosed
ClientHandledReady == cPc = "handle" /\ cMsg \in {"registered", "poison"}

ClientBusy ==
    \/ ClientDrainReady \/ ClientDrainExitReady \/ ClientAfterFactoryReady
    \/ ClientStartReady \/ ClientTakeReady \/ ClientLoopExitReady
    \/ ClientHandledReady

\* socket.onopen on the client: ch.resolve, the outbound loop starts.
ClientSocketOpen ==
    /\ cSocket = "connecting"
    /\ ~ClientBusy
    /\ cSocket' = "open"
    /\ cFactory' = IF cFactory = "pending" THEN "resolved" ELSE cFactory
    /\ cDrainPc' = "recv"
    /\ UNCHANGED <<notClient, cErrored>>
    /\ UNCHANGED <<cIsClosing, cChanClosed, connectP, cPc, cOutQ, cSent, cInQ,
                   cMsg, live, registered, closed, nHandled, nSrv>>

\* socket.onerror on the client: isClosing, socket.close(), ch.reject(err).
ClientSocketError ==
    /\ cSocket \in {"connecting", "open"}
    /\ ~cIsClosing
    /\ ~ClientBusy
    /\ cIsClosing' = TRUE
    /\ cSocket' = "closing"
    /\ cFactory' = IF cFactory = "pending" THEN "rejected" ELSE cFactory
    /\ cErrored' = cSocket
    /\ UNCHANGED notClient
    /\ UNCHANGED <<cChanClosed, connectP, cPc, cOutQ, cDrainPc, cSent, cInQ,
                   cMsg, live, registered, closed, nHandled, nSrv>>

\* socket.onclose on the client.
ClientSocketClose ==
    /\ cSocket \in {"open", "closing"}
    /\ ~ClientBusy
    /\ cSocket' = "closed"
    /\ IF ~cIsClosing
       THEN cIsClosing' = TRUE /\ cChanClosed' = TRUE
       ELSE UNCHANGED <<cIsClosing, cChanClosed>>
    /\ UNCHANGED <<notClient, cErrored>>
    /\ UNCHANGED <<cFactory, connectP, cPc, cOutQ, cDrainPc, cSent, cInQ, cMsg,
                   live, registered, closed, nHandled, nSrv>>

\* socket.onmessage on the client: recvChan.send(deserialize(msg.data)).
ClientSocketMessage(m) ==
    /\ cSocket = "open"
    /\ ~cChanClosed
    /\ nSrv < MaxSrv
    /\ ~ClientBusy
    /\ cInQ' = Append(cInQ, m)
    /\ nSrv' = nSrv + 1
    /\ UNCHANGED <<notClient, cErrored>>
    /\ UNCHANGED <<cSocket, cIsClosing, cChanClosed, cFactory, connectP, cPc,
                   cOutQ, cDrainPc, cSent, cMsg, live, registered, closed,
                   nHandled>>

\* await makeWebSocket(...) settles.  Resolved: ch.out.send(register).
\* Rejected: the async function rejects, and so does connect().
ClientAfterFactory ==
    /\ ClientAfterFactoryReady
    /\ IF cFactory = "resolved"
       THEN /\ cOutQ' = Append(cOutQ, "register")
            /\ cPc' = IF cChanClosed THEN "failed" ELSE "send"
            /\ connectP' = IF cChanClosed THEN "rejected" ELSE connectP
       ELSE /\ cPc' = "failed"
            /\ connectP' = "rejected"
            /\ UNCHANGED cOutQ
    /\ UNCHANGED <<notClient, cErrored>>
    /\ UNCHANGED <<cSocket, cIsClosing, cChanClosed, cFactory, cDrainPc, cSent,
                   cInQ, cMsg, live, registered, closed, nHandled, nSrv>>

\* The client's outbound loop: pop, resolve the sender, socket.send.
ClientDrainStep ==
    /\ ClientDrainReady
    /\ cOutQ' = Tail(cOutQ)
    /\ cSent' = Append(cSent, Head(cOutQ))
    /\ cPc' = IF cPc = "send" THEN "sent" ELSE cPc
    /\ UNCHANGED <<notClient, cErrored>>
    /\ UNCHANGED <<cSocket, cIsClosing, cChanClosed, cFactory, connectP,
                   cDrainPc, cInQ, cMsg, live, registered, closed, nHandled,
                   nSrv>>

\* The client's outbound loop ends on the closed channel: socket.close().
ClientDrainExit ==
    /\ ClientDrainExitReady
    /\ cDrainPc' = "done"
    /\ cSocket' = IF cSocket = "open" THEN "closing" ELSE cSocket
    /\ UNCHANGED <<notClient, cErrored>>
    /\ UNCHANGED <<cIsClosing, cChanClosed, cFactory, connectP, cPc, cOutQ,
                   cSent, cInQ, cMsg, live, registered, closed, nHandled, nSrv>>

\* register has been taken: the task with the inbound loop starts and
\* connectMainThread returns {closed, registered}.
ClientStart ==
    /\ ClientStartReady
    /\ cPc' = "recv"
    /\ connectP' = "resolved"
    /\ UNCHANGED <<notClient, cErrored>>
    /\ UNCHANGED <<cSocket, cIsClosing, cChanClosed, cFactory, cOutQ, cDrainPc,
                   cSent, cInQ, cMsg, live, registered, closed, nHandled, nSrv>>

\* for await (const message of ch.in.recv()): a message is taken and
\* handleServerMessage(state, message) is called.
ClientTake ==
    /\ ClientTakeReady
    /\ cMsg' = Head(cInQ)
    /\ cInQ' = Tail(cInQ)
    /\ cPc' = "handle"
    /\ UNCHANGED <<notClient, cErrored>>
    /\ UNCHANGED <<cSocket, cIsClosing, cChanClosed, cFactory, connectP, cOutQ,
                   cDrainPc, cSent, live, registered, closed, nHandled, nSrv>>

\* handleServerMessage on registered: state.live = true.
LiveAfter(m) == live \/ m = "registered"

RegisteredAlways(l) == TRUE

\* if (state.live) registered.resolve()
RegisteredAfter(l) == registered \/ l

\* await handleServerMessage(...) settles: a throw goes to the catch and the
\* finally (closed.resolve(reason)); otherwise the live check and the next
\* turn of the loop.
ClientAfterHandle ==
    IF cMsg = "poison"
    THEN /\ cPc' = "done"
         /\ closed' = "error"
         /\ UNCHANGED <<live, registered, nHandled>>
    ELSE /\ cPc' = "recv"
         /\ live' = LiveAfter(cMsg)
         /\ registered' = RegisteredAfter(LiveAfter(cMsg))
         /\ nHandled' = IF cMsg = "registered" THEN nHandled + 1 ELSE nHandled
         /\ UNCHANGED closed

ClientHandled ==
    /\ ClientHandledReady
    /\ ClientAfterHandle
    /\ cMsg' = "none"
    /\ UNCHANGED <<notClient, cErrored>>
    /\ UNCHANGED <<cSocket, cIsClosing, cChanClosed, cFactory, connectP, cOutQ,
                   cDrainPc, cSent, cInQ, nSrv>>

\* The local call a message started has completed: its handler returns.
ClientLocalDone ==
    /\ cPc = "handle"
    /\ cMsg = "other"
    /\ ~ClientBusy
    /\ ClientAfterHandle
    /\ cMsg' = "none"
    /\ UNCHANGED <<notClient, cErrored>>
    /\ UNCHANGED <<cSocket, cIsClosing, cChanClosed, cFactory, connectP, cOutQ,
                   cDrainPc, cSent, cInQ, nSrv>>

\* ch.in.recv() ends on the closed channel: finally closed.resolve(undefined).
ClientLoopExit ==
    /\ ClientLoopExitReady
    /\ cPc' = "done"
    /\ closed' = "undefined"
    /\ UNCHANGED <<notClient, cErrored>>
    /\ UNCHANGED <<cSocket, cIsClosing, cChanClosed, cFactory, connectP, cOutQ,
                   cDrainPc, cSent, cInQ, cMsg, live, registered, nHandled,
                   nSrv>>

NextClient ==
    \/ ClientSocketOpen
    \/ ClientSocketError
    \/ ClientSocketClose
    \/ \E m \in SrvMsgs : ClientSocketMessage(m)
    \/ ClientAfterFactory
    \/ ClientDrainStep
    \/ ClientDrainExit
    \/ ClientStart
    \/ ClientTake
    \/ ClientHandled
    \/ ClientLocalDone
    \/ ClientLoopExit

SpecClient == Init /\ [][NextClient]_vars

\* C11: the registered promise is resolved only when a registered message
\* has been handled and state.live is true, it is resolved as soon as one
\* has been handled (so never when the connection closes before one
\* arrives), and the closed promise is settled exactly when the inbound loop
\* has ended.
C11_RegisteredAfterHandled ==
    /\ registered => (nHandled >= 1 /\ live)
    /\ nHandled >= 1 => registered
    /\ (cSocket = "closed" /\ nHandled = 0) => ~registered
    /\ closed # "pending" <=> cPc = "done"

C11_Witness ==
    /\ registered
    /\ nHandled = 1
    /\ cSocket = "closed"
    /\ closed = "undefined"

\* C12: connect() never fails: the promise it returns is not rejected,
\* whatever happens to the socket.
C12_ConnectNeverRejects == connectP # "rejected"

\* C18: after the socket's close event both channels are closed.
C18_CloseClosesChannels == cSocket = "closed" => cChanClosed

\* C19: after the socket's error event and the close event that follows it
\* both channels are closed; an error before open has rejected the factory
\* promise; and the factory promise is resolved only for a socket that has
\* been open.
C19_ErrorClosesChannels ==
    /\ (cErrored # "no" /\ cSocket = "closed") => cChanClosed
    /\ cErrored = "connecting" => cFactory = "rejected"
    /\ cFactory = "resolved" => cSocket # "connecting"

\* ------------------------------------------------------------ makeChan
\* The signal the recv in progress watches: ctrl.signal itself without an
\* argument, else the controller link(ctrl.signal, signal) made.
LinkedNow == IF recvMode = "own" THEN chanAborted ELSE recvLinked

ChanRecvTakeReady == recvPc = "pop" /\ queue # <<>> /\ ~LinkedNow
ChanRecvWakeReady == recvPc = "pop" /\ LinkedNow
ChanBusy == ChanRecvTakeReady \/ ChanRecvWakeReady

\* A send whose capacity branch decides before the closed check does.
SendOutcomeCapacityFirst ==
    IF currentCapacity > 0 THEN "ok"
    ELSE IF chanAborted THEN "rejected" ELSE "pending"

\* send: reject on a closed channel; else resolve at once if there is
\* capacity; else the promise waits for the receiver.
SendOutcome ==
    IF chanAborted THEN "rejected"
    ELSE IF currentCapacity > 0 THEN "ok" ELSE "pending"

\* A send that does not use up capacity.
CapacityKept == currentCapacity

\* if (currentCapacity > 0) currentCapacity--
CapacityAfterSend ==
    IF currentCapacity > 0 THEN currentCapacity - 1 ELSE currentCapacity

\* send(value): the value is queued in every case.
ChanSend ==
    /\ nSends < MaxSends
    /\ ~ChanBusy
    /\ nSends' = nSends + 1
    /\ sendRes' = [sendRes EXCEPT ![nSends + 1] = SendOutcome]
    /\ currentCapacity' = CapacityAfterSend
    /\ queue' = Append(queue, [id |-> nSends + 1,
                               buffered |-> currentCapacity > 0])
    /\ UNCHANGED notChan
    /\ UNCHANGED <<capacity, chanAborted, abortPromise, recvPc, recvMode,
                   recvLinked, hearsClose, cancel, cancelAt, taken, nCloses,
                   nRecvs>>

\* A closed future that the first close() leaves pending.
AbortPromiseLate == chanAborted

\* ctrl.signal.onabort: abortPromise.resolve()
AbortPromiseAfterClose == TRUE

\* close(): ctrl.abort().  Aborting an aborted controller does nothing.
ChanClose ==
    /\ nCloses < MaxCloses
    /\ ~ChanBusy
    /\ nCloses' = nCloses + 1
    /\ IF ~chanAborted
       THEN /\ chanAborted' = TRUE
            /\ abortPromise' = AbortPromiseAfterClose
            /\ recvLinked' = (recvLinked \/
                                (/\ recvMode = "linked"
                                 /\ hearsClose
                                 /\ recvPc \in {"pop", "yield"}))
       ELSE UNCHANGED <<chanAborted, abortPromise, recvLinked>>
    /\ UNCHANGED notChan
    /\ UNCHANGED <<capacity, currentCapacity, queue, sendRes, nSends, recvPc,
                   recvMode, hearsClose, cancel, cancelAt, taken, nRecvs>>

\* recv(signal?) and the consumer's first next(): the linked signal is made,
\* then the loop's first check.  link's listener on a signal that has
\* already fired is never called.
ChanRecvStart(withSignal) ==
    /\ recvPc \in {"none", "done"}
    /\ nRecvs < MaxRecvs
    /\ ~ChanBusy
    /\ nRecvs' = nRecvs + 1
    /\ recvMode' = IF withSignal THEN "linked" ELSE "own"
    /\ cancel' = IF withSignal THEN "live" ELSE "none"
    /\ cancelAt' = "none"
    /\ recvLinked' = FALSE
    /\ hearsClose' = ~chanAborted
    /\ recvPc' = IF ~withSignal /\ chanAborted THEN "done" ELSE "pop"
    /\ UNCHANGED notChan
    /\ UNCHANGED <<capacity, currentCapacity, queue, chanAborted, abortPromise,
                   sendRes, nSends, taken, nCloses>>

\* queue.pop settles with a value: next.resolve(), yield next.value.
ChanRecvTake ==
    /\ ChanRecvTakeReady
    /\ LET it == Head(queue)
       IN /\ queue' = Tail(queue)
          /\ taken' = Append(taken, it.id)
          /\ currentCapacity' = IF it.buffered THEN currentCapacity + 1
                                ELSE currentCapacity
          /\ sendRes' = IF ~it.buffered /\ sendRes[it.id] = "pending"
                        THEN [sendRes EXCEPT ![it.id] = "ok"]
                        ELSE sendRes
    /\ recvPc' = "yield"
    /\ UNCHANGED notChan
    /\ UNCHANGED <<capacity, chanAborted, abortPromise, nSends, recvMode,
                   recvLinked, hearsClose, cancel, cancelAt, nCloses, nRecvs>>

\* A recv that lets the rejection of the pop through.
RecvAfterAbortThrows == "error"

\* catch (_err) { if (linked.aborted) return; throw _err; }
RecvAfterAbort == "done"

\* The pending pop is rejected because its signal fired.
ChanRecvWake ==
    /\ ChanRecvWakeReady
    /\ recvPc' = RecvAfterAbort
    /\ UNCHANGED notChan
    /\ UNCHANGED <<capacity, currentCapacity, queue, chanAborted, abortPromise,
                   sendRes, nSends, recvMode, recvLinked, hearsClose, cancel,
                   cancelAt, taken, nCloses, nRecvs>>

\* The consumer asks for the next value: if (linked.aborted) return, else
\* queue.pop.
ChanRecvNext ==
    /\ recvPc = "yield"
    /\ ~ChanBusy
    /\ recvPc' = IF LinkedNow THEN "done" ELSE "pop"
    /\ UNCHANGED notChan
    /\ UNCHANGED <<capacity, currentCapacity, queue, chanAborted, abortPromise,
                   sendRes, nSends, recvMode, recvLinked, hearsClose, cancel,
                   cancelAt, taken, nCloses, nRecvs>>

\* The signal passed to recv fires while the sequence is in progress.
ChanCancel ==
    /\ cancel = "live"
    /\ recvPc \in {"pop", "yield"}
    /\ ~ChanBusy
    /\ cancel' = "fired"
    /\ cancelAt' = recvPc
    /\ recvLinked' = TRUE
    /\ UNCHANGED notChan
    /\ UNCHANGED <<capacity, currentCapacity, queue, chanAborted, abortPromise,
                   sendRes, nSends, recvPc, recvMode, hearsClose, taken,
                   nCloses, nRecvs>>

InitChan ==
    /\ ServerInit
    /\ ClientInit
    /\ CodecIdle
    /\ RestIdle
    /\ \E k \in 0..MaxCap : ChanInit(k)

NextChan ==
    \/ ChanSend
    \/ ChanClose
    \/ \E withSignal \in BOOLEAN : ChanRecvStart(withSignal)
    \/ ChanRecvTake
    \/ ChanRecvWake
    \/ ChanRecvNext
    \/ ChanCancel

SpecChan == InitChan /\ [][NextChan]_vars

InQueue(i) == \E j \in 1..Len(queue) : queue[j].id = i
WasTaken(i) == \E j \in 1..Len(taken) : taken[j] = i

\* C13: a send on a closed channel is rejected, for every capacity and
\* every content of the queue, and a rejected send never becomes a
\* successful one.
C13_SendAfterCloseFails ==
    [][/\ (nSends' = nSends + 1 /\ chanAborted) =>
              sendRes'[nSends + 1] = "rejected"
       /\ \A i \in 1..MaxSends :
              sendRes[i] = "rejected" => sendRes'[i] = "rejected"]_vars

C13_Witness ==
    \E i \in 1..MaxSends :
        /\ sendRes[i] = "rejected"
        /\ capacity = 2
        /\ currentCapacity = 0
        /\ Len(queue) = 2
        /\ WasTaken(i)

\* C14: once the channel is closed no recv stays suspended: a recv waiting
\* for a value when close() is called, and one started after close() with
\* or without a signal, has ended (or holds a value for its consumer) by
\* the time no continuation is left to run, and none raises an error.
C14_CloseEndsRecv ==
    (chanAborted /\ ~ChanBusy) => recvPc \in {"none", "yield", "done"}

\* C15: once the signal passed to recv has fired, the consumer gets no
\* further value and no error: with no continuation left to run the sequence
\* has ended, or ends at the consumer's next request.
C15_CancelEndsRecv ==
    [][/\ (cancel' = "fired" /\ ~ChanBusy') => recvPc' \in {"yield", "done"}
       /\ (cancel = "fired" /\ nRecvs' = nRecvs) =>
              (taken' = taken /\ recvPc' # "pop")
       /\ recvPc' # "error"]_vars

C15_Witness ==
    /\ cancel = "fired"
    /\ cancelAt = "yield"
    /\ recvPc = "done"
    /\ ~chanAborted
    /\ taken # <<>>
    /\ queue # <<>>

\* C16: capacity k.  The sends that have completed and whose values the
\* receiver has not taken are never more than k; with k = 0 a completed send
\* has had its value taken; and as long as nothing has been received, each
\* of the first k sends on the open channel has completed.
C16_Capacity ==
    /\ Cardinality({i \in 1..MaxSends :
                       sendRes[i] = "ok" /\ InQueue(i)}) <= capacity
    /\ capacity = 0 =>
          \A i \in 1..MaxSends : sendRes[i] = "ok" => WasTaken(i)
    /\ taken = <<>> =>
          \A i \in 1..nSends :
              (i <= capacity /\ sendRes[i] # "rejected") => sendRes[i] = "ok"

C16_Witness ==
    /\ capacity = 2
    /\ taken = <<>>
    /\ ~chanAborted
    /\ sendRes[1] = "ok"
    /\ sendRes[2] = "ok"
    /\ sendRes[3] = "pending"

\* C17: a close() on a closed channel changes nothing: the signal, the
\* closed future, the queue, the sends and the recv stay as they were; and
\* the closed future is completed exactly when the channel is closed.
C17_CloseIdempotent ==
    [][/\ abortPromise' <=> chanAborted'
       /\ (nCloses' = nCloses + 1 /\ chanAborted) =>
              UNCHANGED <<capacity, currentCapacity, queue, chanAborted,
                          abortPromise, sendRes, nSends, recvPc, recvMode,
                          recvLinked, hearsClose, cancel, taken>>]_vars

C17_Witness ==
    /\ nCloses = 2
    /\ chanAborted
    /\ abortPromise
    /\ recvPc = "done"
    /\ \E i \in 1..MaxSends : sendRes[i] = "rejected"

\* -------------------------------------------------------------- codecs
\* A message is its header (the bytes of the JSON text of its scalar
\* fields) and an optional chunk of bytes.
Bytes == {0, 65, 255}
Headers == {<<123, 125>>, <<123, 34, 97, 34, 58, 49, 125>>}
Chunks == UNION {[1..n -> Bytes] : n \in 0..MaxChunkLen}

Msgs ==
    {NoChunk(h) : h \in Headers}
    \cup {[header |-> h, hasChunk |-> TRUE, chunk |-> b] :
             h \in Headers, b \in Chunks}

Drop(q, n) == SubSeq(q, n + 1, Len(q))

Pad == 64

RECURSIVE B64Encode(_)
\* base64: three bytes give four 6-bit digits; a last group of one or two
\* bytes is padded.
B64Encode(b) ==
    IF Len(b) = 0 THEN <<>>
    ELSE IF Len(b) = 1
    THEN <<b[1] \div 4, (b[1] % 4) * 16, Pad, Pad>>
    ELSE IF Len(b) = 2
    THEN <<b[1] \div 4, (b[1] % 4) * 16 + (b[2] \div 16), (b[2] % 16) * 4,
           Pad>>
    ELSE <<b[1] \div 4, (b[1] % 4) * 16 + (b[2] \div 16),
           (b[2] % 16) * 4 + (b[3] \div 64), b[3] % 64>>
         \o B64Encode(Drop(b, 3))

RECURSIVE B64DecodeNoPad(_)
\* A decoder that takes the padding for a digit.
B64DecodeNoPad(d) ==
    IF Len(d) < 4 THEN <<>>
    ELSE <<(d[1] * 4 + (d[2] \div 16)) % 256,
           ((d[2] % 16) * 16 + (d[3] \div 4)) % 256,
           ((d[3] % 4) * 64 + d[4]) % 256>>
         \o B64DecodeNoPad(Drop(d, 4))

RECURSIVE B64Decode(_)
B64Decode(d) ==
    IF Len(d) < 4 THEN <<>>
    ELSE IF d[3] = Pad
    THEN <<d[1] * 4 + (d[2] \div 16)>>
    ELSE IF d[4] = Pad
    THEN <<d[1] * 4 + (d[2] \div 16), (d[2] % 16) * 16 + (d[3] \div 4)>>
    ELSE <<d[1] * 4 + (d[2] \div 16), (d[2] % 16) * 16 + (d[3] \div 4),
           (d[3] % 4) * 64 + d[4]>>
         \o B64Decode(Drop(d, 4))

\* The JSON text, as its parts: the scalar fields, whether there is a chunk
\* field, and the chunk field's base64 digits.
JsonSerialize(m) ==
    <<m.header, m.hasChunk, IF m.hasChunk THEN B64Encode(m.chunk) ELSE <<>>>>

JsonDeserialize(w) ==
    [header |-> w[1], hasChunk |-> w[2],
     chunk |-> IF w[2] THEN B64Decode(w[3]) ELSE <<>>]

\* The u32 length prefix, big-endian.
U32(n) ==
    <<(n \div 16777216) % 256, (n \div 65536) % 256, (n \div 256) % 256,
      n % 256>>

ReadU32(w) == ((w[1] * 256 + w[2]) * 256 + w[3]) * 256 + w[4]

\* [u32 header_len][header_bytes][chunk_bytes]
BinarySerialize(m) == U32(Len(m.header)) \o m.header \o m.chunk

\* The bytes after the header are the chunk; whether a message gets a chunk
\* when no byte is left is the decoder's choice.
BinaryDeserialize(w, t) ==
    LET n == ReadU32(w)
        rest == Drop(w, 4 + n)
    IN [header |-> SubSeq(w, 5, 4 + n),
        hasChunk |-> (t = "always" \/ rest # <<>>),
        chunk |-> rest]

CodecSerialize ==
    /\ cdPc = "in"
    /\ cdWire' = IF cdCodec = "json" THEN JsonSerialize(cdMsg)
                 ELSE BinarySerialize(cdMsg)
    /\ cdPc' = "wire"
    /\ UNCHANGED notCodec
    /\ UNCHANGED <<cdCodec, cdTrailing, cdMsg, cdOut>>

CodecDeserialize ==
    /\ cdPc = "wire"
    /\ cdOut' = IF cdCodec = "json" THEN JsonDeserialize(cdWire)
                ELSE BinaryDeserialize(cdWire, cdTrailing)
    /\ cdPc' = "out"
    /\ UNCHANGED notCodec
    /\ UNCHANGED <<cdCodec, cdTrailing, cdMsg, cdWire>>

InitCodec ==
    /\ ServerInit
    /\ ClientInit
    /\ ChanInit(0)
    /\ \E c \in {"json", "binary"} : \E t \in {"always", "nonempty"} :
          \E m \in Msgs : CodecInit(c, t, m)
    /\ RestIdle

NextCodec == CodecSerialize \/ CodecDeserialize

SpecCodec == InitCodec /\ [][NextCodec]_vars

\* C20 as stated: with either codec, what deserialize gives for serialize(m)
\* is m, for every message with or without a chunk and every chunk.
C20_RoundTrip == cdPc = "out" => cdOut = cdMsg

\* C20: the JSON codec gives back every message.  The binary codec gives
\* back the header and the chunk's bytes, its encoding is 4 + header +
\* chunk bytes long, and it gives back the whole message when the chunk is
\* not empty.
C20_RoundTripNonEmpty ==
    cdPc = "out" =>
        /\ cdCodec = "json" => cdOut = cdMsg
        /\ cdCodec = "binary" =>
              /\ cdOut.header = cdMsg.header
              /\ cdOut.chunk = cdMsg.chunk
              /\ Len(cdWire) = 4 + Len(cdMsg.header) + Len(cdMsg.chunk)
              /\ cdMsg.chunk # <<>> => cdOut = cdMsg

C20_Witness ==
    /\ cdPc = "out"
    /\ cdCodec = "json"
    /\ cdMsg.hasChunk
    /\ Len(cdMsg.chunk) = 4
    /\ cdMsg.chunk[4] = 255
    /\ cdOut = cdMsg

\* --------------------------------------------------------------- Queue
\* The Queue under makeChan: push(item), pop({signal}), size, locked.

size == Len(qItems)

\* A pop is suspended on the empty queue.
locked == qPop = "waiting"

ShiftNewest(q) ==
    [value |-> q[Len(q)], rest |-> SubSeq(q, 1, Len(q) - 1)]

\* What pop removes: the oldest item.
Shift(q) ==
    [value |-> Head(q), rest |-> Tail(q)]

\* push(item): enqueue and notify a suspended pop; returns at once.
QueuePush ==
    /\ qNext <= MaxPush
    /\ qItems' = Append(qItems, qNext)
    /\ qNext' = qNext + 1
    /\ qPop' = IF qPop = "waiting" THEN "woken" ELSE qPop
    /\ UNCHANGED <<qOut, qCancel, qPops>>
    /\ UNCHANGED notQueue

\* pop({signal}): take the oldest item, or suspend when there is none.
QueuePop(withSignal) ==
    /\ qPop = "idle"
    /\ qPops < MaxPops
    /\ qPops' = qPops + 1
    /\ qCancel' = IF withSignal THEN "live" ELSE "none"
    /\ IF qItems # <<>>
         THEN /\ qItems' = Shift(qItems).rest
              /\ qOut' = Append(qOut, Shift(qItems).value)
              /\ qPop' = "got"
         ELSE /\ qPop' = "waiting"
              /\ UNCHANGED <<qItems, qOut>>
    /\ UNCHANGED qNext
    /\ UNCHANGED notQueue

\* The suspended pop resumes after a push and takes the oldest item.
QueueWake ==
    /\ qPop = "woken"
    /\ qItems' = Shift(qItems).rest
    /\ qOut' = Append(qOut, Shift(qItems).value)
    /\ qPop' = "got"
    /\ UNCHANGED <<qNext, qCancel, qPops>>
    /\ UNCHANGED notQueue

\* The signal given to pop fires: a suspended pop fails, nothing is consumed.
QueueCancel ==
    /\ qCancel = "live"
    /\ qCancel' = "fired"
    /\ qPop' = IF qPop = "waiting" THEN "cancelled" ELSE qPop
    /\ UNCHANGED <<qItems, qNext, qOut, qPops>>
    /\ UNCHANGED notQueue

\* The caller has the outcome of its pop and may call pop again.
QueueSettled ==
    /\ qPop \in {"got", "cancelled"}
    /\ qPop' = "idle"
    /\ qCancel' = "none"
    /\ UNCHANGED <<qItems, qNext, qOut, qPops>>
    /\ UNCHANGED notQueue

InitQueue ==
    /\ ServerInit
    /\ ClientInit
    /\ ChanInit(0)
    /\ CodecIdle
    /\ RestIdle

NextQueue ==
    \/ QueuePush
    \/ \E withSignal \in BOOLEAN : QueuePop(withSignal)
    \/ QueueWake
    \/ QueueCancel
    \/ QueueSettled

SpecQueue == InitQueue /\ [][NextQueue]_vars

\* C21: a new queue has size 0 and is not locked; push adds one item and is
\* always possible; pop returns the oldest item and removes it; a pop on the
\* empty queue waits until a push, whose item it then returns, or until its
\* cancel signal fires, and then it fails and consumes nothing.
C21_QueueFifo ==
    [][ /\ (qNext = 1 /\ qPops = 0) => (size = 0 /\ ~locked)
        /\ qNext <= MaxPush => ENABLED QueuePush
        /\ qNext' # qNext => size' = size + 1
        /\ qOut' # qOut =>
              /\ qItems # <<>>
              /\ qOut' = Append(qOut, Head(qItems))
              /\ size' = size - 1
              /\ qPop' = "got"
        /\ (locked /\ qNext' # qNext) => qPop' = "woken"
        /\ qPop = "woken" => (qPop' \in {"woken", "got"} /\ qItems # <<>>)
        /\ locked => size = 0
        /\ (qPop' = "cancelled" /\ qPop # "cancelled") =>
              /\ locked
              /\ qCancel' = "fired"
              /\ qItems' = qItems
              /\ qOut' = qOut
        /\ qOut' \o qItems' = [i \in 1..(qNext' - 1) |-> i] ]_vars

\* Two pops returned items, the queue is empty again, and a third pop was
\* cancelled while suspended on it.
C21_Witness ==
    /\ Len(qOut) >= 2
    /\ qPop = "cancelled"
    /\ qItems = <<>>
    /\ qPops = MaxPops

\* C23: a send that was suspended when the channel was closed settles: once
\* the channel is closed, no recv sequence is running and no continuation is
\* left to run, no send is still pending.
C23_SendSettlesAfterClose ==
    (/\ chanAborted
     /\ abortPromise
     /\ recvPc \in {"none", "done", "error"}
     /\ ~ChanBusy) =>
        \A i \in 1..MaxSends : sendRes[i] # "pending"

\* ------------------------------------------------- the client's requests
\* handleServerMessage for request-start, request-data, request-end and
\* request-aborted, and the local call that answers.

\* A response pump that does not look at the cancellation.
ReplyOpenUncancelled(r) ==
    /\ localCall[r] \in {"responding", "cancelled"}
    /\ sentResp[r] # <<>>

\* The response of r may still be streamed: its entry is there.
ReplyOpen(r) ==
    /\ r \in requests
    /\ reqState[r] = "Replying"

\* request-start: store a handle keyed by id and initiate the local call.
ClientRequestStart(r, b) ==
    /\ reqState[r] = "none"
    /\ \A x \in Reqs : x < r => reqState[x] # "none"
    /\ requests' = requests \cup {r}
    /\ reqState' = [reqState EXCEPT ![r] = "Received"]
    /\ reqHasBody' = [reqHasBody EXCEPT ![r] = b]
    /\ localCall' = [localCall EXCEPT ![r] = "pending"]
    /\ UNCHANGED <<sentResp, abortedAt>>
    /\ UNCHANGED notCreq

\* request-data: push the chunk into the body channel of id.
ClientRequestData(r) ==
    /\ r \in requests
    /\ reqHasBody[r]
    /\ reqState[r] \in {"Received", "Body-in"}
    /\ reqState' = [reqState EXCEPT ![r] = "Body-in"]
    /\ UNCHANGED <<requests, reqHasBody, localCall, sentResp, abortedAt>>
    /\ UNCHANGED notCreq

\* request-end: close the body channel of id.
ClientRequestEnd(r) ==
    /\ r \in requests
    /\ reqHasBody[r]
    /\ reqState[r] \in {"Received", "Body-in"}
    /\ reqState' = [reqState EXCEPT ![r] = "Body-sent"]
    /\ UNCHANGED <<requests, reqHasBody, localCall, sentResp, abortedAt>>
    /\ UNCHANGED notCreq

\* The local call answers: response-start.
ClientLocalResponse(r) ==
    /\ r \in requests
    /\ localCall[r] = "pending"
    /\ \/ reqState[r] = "Body-sent"
       \/ reqState[r] = "Received" /\ ~reqHasBody[r]
    /\ reqState' = [reqState EXCEPT ![r] = "Replying"]
    /\ localCall' = [localCall EXCEPT ![r] = "responding"]
    /\ sentResp' = [sentResp EXCEPT ![r] = Append(@, "response-start")]
    /\ UNCHANGED <<requests, reqHasBody, abortedAt>>
    /\ UNCHANGED notCreq

\* The next chunk of the local response: response-data.
ClientReplyData(r) ==
    /\ ReplyOpen(r)
    /\ Len(sentResp[r]) <= MaxReply
    /\ sentResp' = [sentResp EXCEPT ![r] = Append(@, "response-data")]
    /\ UNCHANGED <<requests, reqState, reqHasBody, localCall, abortedAt>>
    /\ UNCHANGED notCreq

\* The local response is exhausted: response-end, and the entry goes.
ClientReplyEnd(r) ==
    /\ ReplyOpen(r)
    /\ sentResp' = [sentResp EXCEPT ![r] = Append(@, "response-end")]
    /\ reqState' = [reqState EXCEPT ![r] = "Done"]
    /\ localCall' = [localCall EXCEPT ![r] = "done"]
    /\ requests' = requests \ {r}
    /\ UNCHANGED <<reqHasBody, abortedAt>>
    /\ UNCHANGED notCreq

\* The local call fails: response-error.
ClientLocalError(r) ==
    /\ r \in requests
    /\ localCall[r] \in {"pending", "responding"}
    /\ sentResp' = [sentResp EXCEPT ![r] = Append(@, "response-error")]
    /\ reqState' = [reqState EXCEPT ![r] = "Failed"]
    /\ localCall' = [localCall EXCEPT ![r] = "failed"]
    /\ requests' = requests \ {r}
    /\ UNCHANGED <<reqHasBody, abortedAt>>
    /\ UNCHANGED notCreq

\* request-aborted: cancel the local call, drop the entry, do not reply.
ClientRequestAborted(r) ==
    /\ r \in requests
    /\ localCall' = [localCall EXCEPT ![r] = "cancelled"]
    /\ requests' = requests \ {r}
    /\ reqState' = [reqState EXCEPT ![r] = "Aborted"]
    /\ abortedAt' = [abortedAt EXCEPT ![r] = Len(sentResp[r])]
    /\ UNCHANGED <<reqHasBody, sentResp>>
    /\ UNCHANGED notCreq

InitClientReq ==
    /\ ServerInit
    /\ ClientInit
    /\ ChanInit(0)
    /\ CodecIdle
    /\ RestIdle

NextClientReq ==
    \/ \E r \in Reqs : \E b \in BOOLEAN : ClientRequestStart(r, b)
    \/ \E r \in Reqs : ClientRequestData(r)
    \/ \E r \in Reqs : ClientRequestEnd(r)
    \/ \E r \in Reqs : ClientLocalResponse(r)
    \/ \E r \in Reqs : ClientReplyData(r)
    \/ \E r \in Reqs : ClientReplyEnd(r)
    \/ \E r \in Reqs : ClientLocalError(r)
    \/ \E r \in Reqs : ClientRequestAborted(r)

SpecClientReq == InitClientReq /\ [][NextClientReq]_vars

\* C25: once the client has handled request-aborted for r in a non-terminal
\* state, the local call of r is cancelled, r has no entry in the request map
\* and no response-* message for r is sent any more.
C25_AbortedStaysSilent ==
    \A r \in Reqs :
        abortedAt[r] >= 0 =>
            /\ localCall[r] = "cancelled"
            /\ r \notin requests
            /\ Len(sentResp[r]) = abortedAt[r]

\* Request 1 was aborted while its response was being streamed, after request
\* 2 had been answered in full.
C25_Witness ==
    /\ abortedAt[1] >= 2
    /\ reqState[1] = "Aborted"
    /\ reqState[2] = "Done"

\* ---------------------------------------------------------------- link
\* link(...signals): a controller whose signal the abort events of the
\* sources abort.

\* A listener without the check of ctrl.signal.aborted.
ListenerUnguarded(x) ==
    [aborted |-> TRUE, reason |-> x, fires |-> ctrlFires + 1]

\* The listener: if (!ctrl.signal.aborted) ctrl.abort(evt)
Listener(x) ==
    IF ~ctrlAborted
    THEN [aborted |-> TRUE, reason |-> x, fires |-> ctrlFires + 1]
    ELSE [aborted |-> ctrlAborted, reason |-> ctrlReason, fires |-> ctrlFires]

\* link(...ss): a new controller, and a listener added to each signal.
\* Adding a listener dispatches nothing, whatever the signal's state.
Link(ss) ==
    /\ ~linkMade
    /\ linkMade' = TRUE
    /\ signals' = ss
    /\ ctrlAborted' = FALSE
    /\ UNCHANGED <<sigAborted, ctrlReason, ctrlFires>>
    /\ UNCHANGED notLink

\* A source fires: its abort event is dispatched, once, to the listeners
\* it has at that moment.
SourceAbort(x) ==
    /\ ~sigAborted[x]
    /\ sigAborted' = [sigAborted EXCEPT ![x] = TRUE]
    /\ IF linkMade /\ x \in signals
       THEN /\ ctrlAborted' = Listener(x).aborted
            /\ ctrlReason' = Listener(x).reason
            /\ ctrlFires' = Listener(x).fires
       ELSE UNCHANGED <<ctrlAborted, ctrlReason, ctrlFires>>
    /\ UNCHANGED <<signals, linkMade>>
    /\ UNCHANGED notLink

InitLink ==
    /\ ServerInit
    /\ ClientInit
    /\ ChanInit(0)
    /\ CodecIdle
    /\ RestIdle

NextLink ==
    \/ \E ss \in SUBSET Srcs \ {{}} : Link(ss)
    \/ \E x \in Srcs : SourceAbort(x)

SpecLink == InitLink /\ [][NextLink]_vars

\* C26: the signal link returns is aborted by the first source that fires
\* after the link was made, by no later one, and is not aborted while none
\* of its sources has fired.
C26_LinkFiresOnce ==
    [][ /\ \A x \in signals :
              (linkMade /\ ~ctrlAborted /\ ~sigAborted[x] /\ sigAborted'[x]) =>
                  (ctrlAborted' /\ ctrlReason' = x)
        /\ ctrlAborted => (ctrlAborted' /\ ctrlReason' = ctrlReason)
        /\ ctrlFires' <= 1
        /\ ctrlAborted' => \E x \in signals' : sigAborted'[x]
        /\ (ctrlAborted' /\ ~ctrlAborted) =>
              (linkMade /\ \E x \in signals : ~sigAborted[x] /\ sigAborted'[x])
      ]_vars

\* Two sources of the link have fired; the first of them aborted the derived
\* signal and the second changed nothing.
C26_Witness ==
    /\ linkMade
    /\ ctrlAborted
    /\ ctrlFires = 1
    /\ \E x, y \in signals :
          x # y /\ sigAborted[x] /\ sigAborted[y] /\ ctrlReason = x

\* C27: every host in the registry maps to a connection that has an entry
\* in serverStates; no host points at a connection that was torn down.
C27_NoDanglingHost ==
    \A h \in DOMAIN hostToClientId : hostToClientId[h] \in serverStates

\* Connection 1 claimed a host and was torn down; the host now belongs to
\* connection 2, which is alive.
C27_Witness ==
    \E h \in Hosts :
        /\ inPc[1] = "done"
        /\ 1 \notin serverStates
        /\ InList(h, hosts[1])
        /\ h \in DOMAIN hostToClientId
        /\ hostToClientId[h] = 2
        /\ 2 \in serverStates

\* C29: when link is called with a source that has already fired, the
\* signal it returns is aborted.
C29_PreFiredAborts ==
    [][(/\ ~linkMade
        /\ linkMade'
        /\ \E x \in signals' : sigAborted[x]) =>
            ctrlAborted']_vars

\* C30: a send that fails because the channel is closed leaves the queue
\* and the remaining capacity as they were.
C30_FailedSendNoEffect ==
    [][(/\ nSends' = nSends + 1
        /\ sendRes'[nSends + 1] = "rejected") =>
            /\ queue' = queue
            /\ currentCapacity' = currentCapacity]_vars

\* ---------------------------------------------------------- forwarding
Types(r) == [i \in 1..Len(wire[r]) |-> wire[r][i].type]

Payload(r) ==
    SelectSeq(wire[r],
              LAMBDA m : m.type \in {"request-start", "request-data",
                                     "request-end"})

Forwarded(r) == r < nextId /\ reqConn[r] # NoConn

\* What a request whose body yielded n chunks puts on the wire.
Expected(r, n) ==
    [i \in 1..(n + 2) |->
        IF i = 1 THEN [type |-> "request-start", chunk |-> 0]
        ELSE IF i = n + 2 THEN [type |-> "request-end", chunk |-> 0]
        ELSE [type |-> "request-data", chunk |-> i - 1]]

\* C4: every request whose request-start went out gets a terminal event and
\* its response promise is resolved: once the connection is closed and no
\* continuation is left to run, the promise is no longer pending.
C4_ResolvedAfterClose ==
    \A r \in Reqs :
        (/\ Forwarded(r)
         /\ wire[r] # <<>>
         /\ socket[reqConn[r]] = "closed"
         /\ ~Busy) =>
            reply[r] # Pending

\* C5: once a connection's socket is closed and its teardown has run, its
\* ongoing-request table is empty and every request that was in it has a
\* response, with its body channel closed if its headers had been received.
C5_CloseDrainsTable ==
    \A c \in Conns :
        (socket[c] = "closed" /\ inPc[c] = "done") =>
            /\ ongoingRequests[c] = {}
            /\ \A r \in Reqs :
                  (Forwarded(r) /\ reqConn[r] = c) =>
                      /\ reply[r] # Pending
                      /\ reply[r] = Streaming => respClosed[r]

\* C6: for every request, what has gone out on the wire of request-start,
\* request-data and request-end is a prefix of: request-start, the body's
\* chunks in body order, request-end; whatever other requests are doing.
C6_WireOrder ==
    \A r \in Reqs :
        LET p == Payload(r)
        IN \A i \in 1..Len(p) :
              /\ p[i].type = "request-start" <=> i = 1
              /\ p[i].type = "request-end" => i = Len(p)
              /\ p[i].type = "request-data" => p[i].chunk = i - 1

C6_Witness ==
    \E r1, r2 \in Reqs :
        /\ r1 # r2
        /\ wire[r1] = Expected(r1, 2)
        /\ wire[r2] = Expected(r2, 1)
        /\ pump[r1] = "done"
        /\ pump[r2] = "done"

\* C7: a forwarded request that is not aborted, on a connection that is not
\* closed, whose body has ended after n chunks (n = 0 without a body), has
\* put exactly request-start, the n request-data in order, request-end on
\* the wire by the time no continuation is left to run.
C7_ExactSequence ==
    \A r \in Reqs :
        (/\ Forwarded(r)
         /\ aborted[r] = "no"
         /\ ~outClosed[reqConn[r]]
         /\ socket[reqConn[r]] = "open"
         /\ hasBody[r] => procPc[r] = "closed"
         /\ ~Busy) =>
            /\ pump[r] = "done"
            /\ ~hasBody[r] => nRead[r] = 0
            /\ wire[r] = Expected(r, nRead[r])

C7_Witness ==
    \E r1, r2 \in Reqs :
        /\ Forwarded(r1) /\ Forwarded(r2)
        /\ hasBody[r1] /\ nRead[r1] = 2 /\ procPc[r1] = "closed"
        /\ ~hasBody[r2]
        /\ aborted[r1] = "no" /\ aborted[r2] = "no"
        /\ pump[r1] = "done" /\ pump[r2] = "done"
        /\ socket[1] = "open"
        /\ ~Busy

\* C8: when the caller aborts a forwarded request while the outbound channel
\* is open, request-aborted goes out and the pump stops: nothing of the
\* request follows request-aborted on the wire, and by the time no
\* continuation is left to run request-aborted is out and the pump is over.
C8_AbortStopsPump ==
    \A r \in Reqs :
        /\ \A i, j \in 1..Len(wire[r]) :
              (i < j /\ wire[r][i].type = "request-aborted") =>
                  wire[r][j].type \notin {"request-data", "request-end"}
        /\ (aborted[r] = "open" /\ ~Busy) =>
              /\ \E i \in 1..Len(wire[r]) : wire[r][i].type = "request-aborted"
              /\ pump[r] \in {"stopped", "done"}

C8_Witness ==
    \E r \in Reqs :
        /\ aborted[r] = "open"
        /\ hasBody[r]
        /\ nRead[r] = 1
        /\ pump[r] = "stopped"
        /\ procPc[r] = "read"
        /\ Types(r) = <<"request-start", "request-data", "request-aborted">>
        /\ socket[1] = "open"

\* C9: when reading the request body fails, the response promise resolves
\* with status 503: once the read has rejected and no continuation is left
\* to run, the response is a 503.
C9_ReadError503 ==
    \A r \in Reqs :
        (procPc[r] = "failed" /\ ~Busy) => reply[r].status = 503

\* C22: once the public caller of request r has aborted, the connection's
\* ongoingRequests holds no entry for r.
C22_AbortRemovesEntry ==
    \A r \in Reqs :
        aborted[r] \in {"open", "closed"} =>
            r \notin ongoingRequests[reqConn[r]]

\* C24: an inbound message of unknown type, or a response-* message whose
\* id has no entry in ongoingRequests, is dropped: the inbound loop goes on to
\* the next message, the connection keeps its state entry and its hosts, and
\* no request's entry, response, body or pump changes.
C24_ViolationDropped ==
    [][\A c \in Conns :
          (/\ inPc[c] = "recv"
           /\ inQ[c] # <<>>
           /\ inQ'[c] = Tail(inQ[c])
           /\ \/ Head(inQ[c]).type = "unknown"
              \/ /\ Head(inQ[c]).type \in
                        {"response-start", "response-data", "response-end",
                         "response-error"}
                 /\ Head(inQ[c]).id \notin ongoingRequests[c]) =>
              /\ inPc'[c] = "recv"
              /\ serverStates' = serverStates
              /\ hostToClientId' = hostToClientId
              /\ socket' = socket
              /\ ongoingRequests' = ongoingRequests
              /\ reply' = reply
              /\ pump' = pump
              /\ respQ' = respQ
              /\ respClosed' = respClosed]_vars

\* Two messages arrived: one ended request 1, the other was dropped, and
\* request 2 is still waiting for its response on the same connection.
C24_Witness ==
    /\ nMsgs = MaxResp + 1
    /\ inQ[1] = <<>>
    /\ inPc[1] = "recv"
    /\ 1 \notin ongoingRequests[1]
    /\ respClosed[1]
    /\ 2 \in ongoingRequests[1]
    /\ reply[2] = Pending
    /\ respQ[2] = 0
    /\ 1 \in serverStates

\* The request-start, request-data and request-end items of r that wait in
\* the outbound channel of its connection.
Untransmitted(r) ==
    {i \in 1..Len(outQ[reqConn[r]]) :
        /\ outQ[reqConn[r]][i].msg.id = r
        /\ outQ[reqConn[r]][i].msg.type \in
               {"request-start", "request-data", "request-end"}}

\* C28: at most one request-start, request-data or request-end of a request
\* waits in the outbound channel, and the pump takes a chunk of the body only
\* when no message of the request is waiting there.
C28_BackPressure ==
    [][\A r \in Reqs :
          reqConn[r] # NoConn =>
              /\ Cardinality(Untransmitted(r)) <= 1
              /\ Cardinality(Untransmitted(r))' <= 1
              /\ (dataQ[r] # <<>> /\ dataQ'[r] = Tail(dataQ[r])) =>
                    /\ Untransmitted(r) = {}
                    /\ Cardinality(Untransmitted(r))' = 1]_vars

\* The second chunk of a body is waiting in the outbound channel, after
\* request-start and the first chunk have gone out.
C28_Witness ==
    \E r \in Reqs :
        /\ pump[r] = "send"
        /\ Len(wire[r]) = 2
        /\ wire[r][2].type = "request-data"
        /\ Cardinality(Untransmitted(r)) = 1
        /\ nRead[r] = 2

\* C31: when the send of request-start fails because the outbound channel
\* of the connection is closed, the caller gets the 503 "Error sending
\* request to remote client" and the connection's ongoingRequests has no
\* entry for the request.
C31_FailedStartCleansUp ==
    \A r \in Reqs :
        pump[r] = "rejected" =>
            /\ reply[r] = ErrorSending
            /\ r \notin ongoingRequests[reqConn[r]]

\* ------------------------------------------------------------- routing
Arrives(r) == nextId = r /\ nextId' = r + 1

StartItem(r) == Item(ServerMsg("request-start", r, 0), Who("req", r))

C3_Unroutable503 ==
    [][\A r \in Reqs :
          (/\ Arrives(r)
           /\ \/ reqHost'[r] = NoHost
              \/ reqHost'[r] \notin DOMAIN hostToClientId
              \/ hostToClientId[reqHost'[r]] \notin serverStates) =>
              /\ reply'[r] =
                     [status |-> 503,
                      body |-> "No registration for domain and/or remote service not available"]
              /\ outQ' = outQ
              /\ ongoingRequests' = ongoingRequests]_vars

C3_Witness ==
    \E r \in Reqs :
        /\ r < nextId
        /\ reqHost[r] \in Hosts
        /\ reqConn[r] = NoConn
        /\ reply[r].status = 503
        /\ serverStates # {}
        /\ DOMAIN hostToClientId # {}

\* C10: when the inbound loop takes a register whose apiKey is not in the
\* configured list, the socket is closed, no registered message is queued,
\* and neither the registry nor the connection's host list changes; a
\* connection that has claimed no host is never a request's target.
C10_BadKeyRejected ==
    [][/\ \A c \in Conns :
             (/\ InRecvReady(c)
              /\ Head(inQ[c]).type = "register"
              /\ Head(inQ[c]).apiKey \notin {"key1"}
              /\ inQ'[c] = Tail(inQ[c])) =>
                 /\ socket'[c] \in {"closing", "closed"}
                 /\ outQ' = outQ
                 /\ hostToClientId' = hostToClientId
                 /\ hosts' = hosts
       /\ \A r \in Reqs :
             reqConn'[r] # NoConn => hosts'[reqConn'[r]] # <<>>]_vars

C10_Witness ==
    \E c \in Conns :
        /\ socket[c] = "closing"
        /\ ~isClosing[c]
        /\ hosts[c] = <<>>
        /\ inQ[c] = <<>>
        /\ nMsgs > 0

====
